---------------------------- MODULE Spec2Model ----------------------------
(***************************************************************************)
(* SolarMap energy API backend: coordinate validation, the energy          *)
(* calculator, the JSON file cache (services/databaseService.js) and the   *)
(* two request handlers of controllers/energyController.js.                *)
(*                                                                         *)
(* Number representation.  JavaScript numbers are modelled by exact        *)
(* fixed-point integers:                                                   *)
(*   - coordinates in thousandths of a degree (0.01 degree = 10 units);    *)
(*   - sample values, areas and efficiencies in hundredths;                *)
(*   - energies in hundredths (the two decimals toFixed(2) keeps).         *)
(* toFixed(2) is modelled as rounding half up of the exact product; the    *)
(* binary rounding noise of IEEE doubles is not modelled.                  *)
(* Strings that the code inspects character by character (URL parameters,  *)
(* period keys) are sequences of one-character strings.                    *)
(***************************************************************************)
EXTENDS Integers, Sequences, FiniteSets, TLC

VARIABLES
    dbFile,     \* data/energy_database.json: absent, corrupt, or an array
    reqs,       \* requests suspended at `await fetchNASAData(...)`
    last,       \* the request that completed most recently, with its response
    clock,      \* logical time: handler steps and direct calls so far (new Date())
    hist,       \* observations over the run (history, not program state)
    op,         \* last direct call of a databaseService function and its result
    vIn,        \* arguments of the last direct validateCoordinates call
    vOut        \* its result

vars == <<dbFile, reqs, last, clock, hist, op, vIn, vOut>>

-----------------------------------------------------------------------------
(* JavaScript values *)

Num(v) == [t |-> "number", v |-> v]
NaN == [t |-> "NaN", v |-> 0]
Undefined == [t |-> "undefined", v |-> 0]

IsNum(x) == x.t = "number"

\* !x for a value that is undefined, NaN or a number
Falsy(x) == x.t # "number" \/ x.v = 0

Abs(n) == IF n < 0 THEN -n ELSE n

Digits == {"0", "1", "2", "3", "4", "5", "6", "7", "8", "9"}

DigitVal(c) ==
    CASE c = "0" -> 0 [] c = "1" -> 1 [] c = "2" -> 2 [] c = "3" -> 3
      [] c = "4" -> 4 [] c = "5" -> 5 [] c = "6" -> 6 [] c = "7" -> 7
      [] c = "8" -> 8 [] c = "9" -> 9

-----------------------------------------------------------------------------
(* parseFloat, on the strings the model feeds it: an optional sign, digits, *)
(* an optional fraction of at most three digits, then anything.  The       *)
(* longest numeric prefix is converted, the rest is ignored; no digit at   *)
(* all gives NaN.  The value is in thousandths.                            *)

RECURSIVE DigitRun(_, _)
\* index of the last character of the run of digits of s that starts at i
\* (i - 1 when s[i] is no digit)
DigitRun(s, i) ==
    IF i <= Len(s) /\ s[i] \in Digits THEN DigitRun(s, i + 1) ELSE i - 1

RECURSIVE DecimalValue(_, _, _)
\* value of the digits s[i..j] read as a decimal integer
DecimalValue(s, i, j) ==
    IF j < i THEN 0 ELSE DecimalValue(s, i, j - 1) * 10 + DigitVal(s[j])

RECURSIVE Pow10(_)
Pow10(n) == IF n = 0 THEN 1 ELSE 10 * Pow10(n - 1)

parseFloat(s) ==
    LET signed == Len(s) >= 1 /\ s[1] \in {"-", "+"}
        start == IF signed THEN 2 ELSE 1
        intEnd == DigitRun(s, start)
        hasDot == intEnd + 1 <= Len(s) /\ s[intEnd + 1] = "."
        fracEnd == IF hasDot THEN DigitRun(s, intEnd + 2) ELSE intEnd
        nInt == intEnd - start + 1
        nFrac == IF hasDot THEN fracEnd - (intEnd + 1) ELSE 0
        magnitude == DecimalValue(s, start, intEnd) * 1000
                       + DecimalValue(s, intEnd + 2, fracEnd) * Pow10(3 - nFrac)
    IN  IF nInt + nFrac = 0 THEN NaN
        ELSE Num(IF signed /\ s[1] = "-" THEN -magnitude ELSE magnitude)

isNaN(x) == x.t = "NaN"

-----------------------------------------------------------------------------
(* utils/helpers.js *)

LatMax == 90000      \* 90 degrees
LonMax == 180000     \* 180 degrees

validateCoordinates_latGE(lat, lon) ==
    LET latitude == parseFloat(lat)
        longitude == parseFloat(lon)
    IN  IF isNaN(latitude) \/ isNaN(longitude)
        THEN [valid |-> FALSE, latitude |-> Undefined, longitude |-> Undefined,
              error |-> "Invalid coordinate format"]
        ELSE IF latitude.v < -LatMax \/ latitude.v >= LatMax
        THEN [valid |-> FALSE, latitude |-> Undefined, longitude |-> Undefined,
              error |-> "Latitude must be between -90 and 90"]
        ELSE IF longitude.v < -LonMax \/ longitude.v > LonMax
        THEN [valid |-> FALSE, latitude |-> Undefined, longitude |-> Undefined,
              error |-> "Longitude must be between -180 and 180"]
        ELSE [valid |-> TRUE, latitude |-> latitude, longitude |-> longitude,
              error |-> ""]

validateCoordinates(lat, lon) ==
    LET latitude == parseFloat(lat)
        longitude == parseFloat(lon)
    IN  IF isNaN(latitude) \/ isNaN(longitude)
        THEN [valid |-> FALSE, latitude |-> Undefined, longitude |-> Undefined,
              error |-> "Invalid coordinate format"]
        ELSE IF latitude.v < -LatMax \/ latitude.v > LatMax
        THEN [valid |-> FALSE, latitude |-> Undefined, longitude |-> Undefined,
              error |-> "Latitude must be between -90 and 90"]
        ELSE IF longitude.v < -LonMax \/ longitude.v > LonMax
        THEN [valid |-> FALSE, latitude |-> Undefined, longitude |-> Undefined,
              error |-> "Longitude must be between -180 and 180"]
        ELSE [valid |-> TRUE, latitude |-> latitude, longitude |-> longitude,
              error |-> ""]

-----------------------------------------------------------------------------
(* Exact arithmetic for the calculator.  A product of several factors does *)
(* not fit a machine integer of the checker, so products are kept as       *)
(* little-endian sequences of base-10000 limbs.                            *)

Limb == Pow10(4)

RECURSIVE MulSmall(_, _, _)
\* limbs of  big * k + carry
MulSmall(big, k, carry) ==
    IF big = <<>>
    THEN IF carry = 0 THEN <<>> ELSE <<carry % Limb>> \o MulSmall(<<>>, k, carry \div Limb)
    ELSE LET x == Head(big) * k + carry
         IN  <<x % Limb>> \o MulSmall(Tail(big), k, x \div Limb)

RECURSIVE Product(_)
\* limbs of the product of a sequence of naturals
Product(factors) ==
    IF factors = <<>> THEN <<1>>
    ELSE MulSmall(Product(Tail(factors)), Head(factors), 0)

RECURSIVE ToInt(_)
ToInt(big) == IF big = <<>> THEN 0 ELSE Head(big) + Limb * ToInt(Tail(big))

DropLimbs(big, k) == IF k >= Len(big) THEN <<>> ELSE SubSeq(big, k + 1, Len(big))

\* floor(big / 10^p)
FloorDivPow10(big, p) == ToInt(DropLimbs(big, p \div 4)) \div Pow10(p % 4)

\* big / 10^p rounded to the nearest integer, halves up: what
\* +(x).toFixed(2) keeps of x when energies are counted in hundredths
RoundDivPow10(big, p) == (FloorDivPow10(big, p - 1) + 5) \div 10

-----------------------------------------------------------------------------
(* backend/utils/energyCalculator.js *)

DAYS_PER_MONTH == 30
HOURS_PER_MONTH == 720
AIR_DENSITY_MILLI == 1225        \* 1.225 kg/m3, in thousandths

DefaultSolarArea == 100          \* area = 1
DefaultSolarEfficiency == 20     \* efficiency = 0.2
DefaultWindArea_one == DefaultSolarArea
DefaultWindArea == 125664        \* area = 1256.64
DefaultWindEfficiency == 40      \* efficiency = 0.4

Annual == <<"a", "n", "n", "u", "a", "l">>

\* MONTH_KEY.test(key): exactly six digits
MONTH_KEY(key) == Len(key) = 6 /\ \A i \in 1..6 : key[i] \in Digits

\* the literal written with the global flag, /^\d{6}$/g
MONTH_KEY_global == {"g"}

\* The flags of the MONTH_KEY literal: none.
MONTH_KEY_flags == {}

\* MONTH_KEY.test(key) on the module's one RegExp object, whose lastIndex
\* property is the only mutable state of the module: [match, lastIndex].
\* Without the g flag the search starts at 0 and lastIndex is left alone;
\* with it the search starts at lastIndex (where ^ matches only at 0) and
\* lastIndex becomes the end of the match, or 0 when there is none.
MONTH_KEY_test(key, lastIndex) ==
    IF "g" \in MONTH_KEY_flags
    THEN IF lastIndex = 0 /\ MONTH_KEY(key)
         THEN [match |-> TRUE, lastIndex |-> Len(key)]
         ELSE [match |-> FALSE, lastIndex |-> 0]
    ELSE [match |-> MONTH_KEY(key), lastIndex |-> lastIndex]

\* no key is taken for an annual average
endsWith13_never(key) == FALSE

endsWith13(key) ==
    Len(key) >= 2 /\ key[Len(key) - 1] = "1" /\ key[Len(key)] = "3"

\* obj with obj[k] = v
Put(obj, k, v) == [x \in DOMAIN obj \cup {k} |-> IF x = k THEN v ELSE obj[x]]

\* the annual total is set to the month's energy instead of increased by it
Accumulate_annualOverwritten(result, key, energy) ==
    LET year == SubSeq(key, 1, 4)
        month == SubSeq(key, 5, 6)
        rec0 == IF year \in DOMAIN result THEN result[year]
                ELSE Put(<<>>, Annual, 0)
        rec1 == Put(rec0, month, energy)
    IN  Put(result, year, Put(rec1, Annual, energy))

\* One accepted sample added to the result: the year record is created with
\* annual 0 when missing, the month is set, the annual total is increased.
Accumulate(result, key, energy) ==
    LET year == SubSeq(key, 1, 4)
        month == SubSeq(key, 5, 6)
        rec0 == IF year \in DOMAIN result THEN result[year]
                ELSE Put(<<>>, Annual, 0)
        rec1 == Put(rec0, month, energy)
        rec2 == Put(rec1, Annual, rec1[Annual] + energy)
    IN  Put(result, year, rec2)

\* the product cut after two decimals instead of rounded
SolarMonth_truncated(irradiance, area, efficiency) ==
    FloorDivPow10(Product(<<irradiance, area, efficiency, DAYS_PER_MONTH>>), 4)

\* +(irradiance * area * efficiency * DAYS_PER_MONTH).toFixed(2), in hundredths:
\* (i/100)(a/100)(e/100) * 30 * 100 = i*a*e*30 / 10^4
SolarMonth(irradiance, area, efficiency) ==
    RoundDivPow10(Product(<<irradiance, area, efficiency, DAYS_PER_MONTH>>), 4)

\* the energy cut after two decimals instead of rounded
WindMonth_truncated(v, area, efficiency) ==
    FloorDivPow10(
        Product(<<5, AIR_DENSITY_MILLI, area, v, v, v, efficiency, HOURS_PER_MONTH>>), 18)

\* +(0.5 * AIR_DENSITY * area * v^3 * efficiency * HOURS_PER_MONTH / 1e6).toFixed(2),
\* in hundredths: 0.5 * (1225/1000)(a/100)(v/100)^3(e/100) * 720 / 10^6 * 100
\*   = 5 * 1225 * a * v^3 * e * 720 / 10^18
WindMonth(v, area, efficiency) ==
    RoundDivPow10(
        Product(<<5, AIR_DENSITY_MILLI, area, v, v, v, efficiency, HOURS_PER_MONTH>>), 18)

\* The loops carry st = [result, lastIndex]: the object being built and the
\* lastIndex of MONTH_KEY after the tests made so far.  One iteration, t
\* being the outcome of MONTH_KEY.test(key):
SolarStep(item, area, efficiency, st, t) ==
    [result |-> IF ~t.match \/ endsWith13(item.key) THEN st.result
                ELSE Accumulate(st.result, item.key,
                                SolarMonth(item.val, area, efficiency)),
     lastIndex |-> t.lastIndex]

RECURSIVE SolarLoop(_, _, _, _, _)
SolarLoop(items, i, area, efficiency, st) ==
    IF i > Len(items) THEN st
    ELSE SolarLoop(items, i + 1, area, efficiency,
             SolarStep(items[i], area, efficiency, st,
                       MONTH_KEY_test(items[i].key, st.lastIndex)))

WindStep(item, area, efficiency, st, t) ==
    [result |-> IF ~t.match \/ endsWith13(item.key) THEN st.result
                ELSE Accumulate(st.result, item.key,
                                WindMonth(item.val, area, efficiency)),
     lastIndex |-> t.lastIndex]

RECURSIVE WindLoop(_, _, _, _, _)
WindLoop(items, i, area, efficiency, st) ==
    IF i > Len(items) THEN st
    ELSE WindLoop(items, i + 1, area, efficiency,
             WindStep(items[i], area, efficiency, st,
                      MONTH_KEY_test(items[i].key, st.lastIndex)))

\* A samples object is [defined, items]: items lists its properties in
\* Object.keys order.  Object.keys(undefined) throws a TypeError, which is
\* the outcome [threw |-> TRUE].
Samples(items) == [defined |-> TRUE, items |-> items]
UndefinedSamples == [defined |-> FALSE, items |-> <<>>]

Returned(value) == [threw |-> FALSE, value |-> value]
Threw == [threw |-> TRUE, value |-> <<>>]

\* The series the modelled upstream returns and the custom parameters the
\* modelled requests carry.
Key(y, m) == y \o m
Y2012 == <<"2", "0", "1", "2">>
Y2013 == <<"2", "0", "1", "3">>

SolarA == Samples(<< [key |-> Key(Y2012, <<"0", "1">>), val |-> 400],
                     [key |-> Key(Y2012, <<"0", "2">>), val |-> 417],
                     [key |-> Key(Y2012, <<"1", "3">>), val |-> 409] >>)
WindA == Samples(<< [key |-> Key(Y2012, <<"0", "1">>), val |-> 500],
                    [key |-> Key(Y2012, <<"1", "3">>), val |-> 500] >>)
SolarB == Samples(<< [key |-> Key(Y2013, <<"1", "2">>), val |-> 333] >>)
WindB == Samples(<< [key |-> Key(Y2013, <<"1", "2">>), val |-> 621] >>)

CustomArea == 201                \* area = 2.01
CustomSolarEfficiency == 22      \* solarEfficiency = 0.22
CustomWindEfficiency == 35       \* windEfficiency = 0.35

\* A call made when MONTH_KEY.lastIndex is `lastIndex`: what it returns or
\* throws, and the lastIndex it leaves.
Outcome(st) == [threw |-> FALSE, value |-> st.result, lastIndex |-> st.lastIndex]

calculateSolarEnergyCall(lastIndex, data, area, efficiency) ==
    IF ~data.defined THEN [threw |-> TRUE, value |-> <<>>, lastIndex |-> lastIndex]
    ELSE Outcome(SolarLoop(data.items, 1, area, efficiency,
                           [result |-> <<>>, lastIndex |-> lastIndex]))

calculateWindEnergyCall(lastIndex, data, area, efficiency) ==
    IF ~data.defined THEN [threw |-> TRUE, value |-> <<>>, lastIndex |-> lastIndex]
    ELSE Outcome(WindLoop(data.items, 1, area, efficiency,
                          [result |-> <<>>, lastIndex |-> lastIndex]))

\* The calls of the request handlers: lastIndex is 0 when the module is
\* loaded and no test changes it.
calculateSolarEnergy(data, area, efficiency) ==
    IF ~data.defined THEN Threw
    ELSE Returned(calculateSolarEnergyCall(0, data, area, efficiency).value)

calculateWindEnergy(data, area, efficiency) ==
    IF ~data.defined THEN Threw
    ELSE Returned(calculateWindEnergyCall(0, data, area, efficiency).value)

-----------------------------------------------------------------------------
(* services/databaseService.js (its text is the tail of README.md)         *)
(*                                                                         *)
(* The file is [state, data]: "absent", "ok" with the array it holds, or   *)
(* "corrupt" (it exists but JSON.parse rejects it, e.g. truncated by a     *)
(* write that failed half-way).  Every value the handlers store is a finite *)
(* number, a string or an object of these, which JSON.stringify and        *)
(* JSON.parse give back unchanged, so an "ok" file holds the array itself. *)
(* `disk` is the condition of the disk during one synchronous step:        *)
(*   "ok"       writeFileSync succeeds;                                    *)
(*   "fail"     writeFileSync throws before touching the file;             *)
(*   "truncate" writeFileSync throws after truncating the file.            *)
(* Reading an existing file always succeeds.                               *)

Tolerance == 10          \* findByCoordinates' default tolerance, 0.01 degree
SaveTolerance == 10      \* the 0.01 that saveEnergyData compares with

Disk == {"ok", "fail", "truncate"}

Absent == [state |-> "absent", data |-> <<>>]
Corrupt == [state |-> "corrupt", data |-> <<>>]
Stored(data) == [state |-> "ok", data |-> data]

\* fs.writeFileSync(DB_FILE, JSON.stringify(data, null, 2))
writeFileSync(file, data, disk) ==
    CASE disk = "ok" -> [file |-> Stored(data), threw |-> FALSE]
      [] disk = "fail" -> [file |-> file, threw |-> TRUE]
      [] disk = "truncate" -> [file |-> Corrupt, threw |-> TRUE]

\* the empty array is written whether or not the file exists
initializeDatabase_alwaysWrites(file, disk) == writeFileSync(file, <<>>, disk)

initializeDatabase(file, disk) ==
    IF file.state = "absent" THEN writeFileSync(file, <<>>, disk)
    ELSE [file |-> file, threw |-> FALSE]

\* [file, database]: the file after the call and the array returned
readDatabase(file, disk) ==
    LET init == initializeDatabase(file, disk)
    IN  IF init.threw \/ init.file.state # "ok"
        THEN [file |-> init.file, database |-> <<>>]     \* catch: return []
        ELSE [file |-> init.file, database |-> init.file.data]

writeDatabase(file, data, disk) == writeFileSync(file, data, disk)

Near_nonStrict(entry, latitude, longitude, tolerance) ==
    /\ Abs(entry.latitude - latitude) <= tolerance
    /\ Abs(entry.longitude - longitude) <= tolerance

Near(entry, latitude, longitude, tolerance) ==
    /\ Abs(entry.latitude - latitude) < tolerance
    /\ Abs(entry.longitude - longitude) < tolerance

RECURSIVE FindIndex(_, _, _, _, _)
\* Array.prototype.find: index of the first match from i on, 0 when none
FindIndex(database, i, latitude, longitude, tolerance) ==
    IF i > Len(database) THEN 0
    ELSE IF Near(database[i], latitude, longitude, tolerance) THEN i
    ELSE FindIndex(database, i + 1, latitude, longitude, tolerance)

NoEntry == [latitude |-> 0, longitude |-> 0, timestamp |-> -1]

\* [file, found, entry]; found = FALSE stands for the result `undefined`
findByCoordinates(file, disk, latitude, longitude, tolerance) ==
    LET rd == readDatabase(file, disk)
        i == FindIndex(rd.database, 1, latitude, longitude, tolerance)
    IN  [file |-> rd.file, found |-> i # 0,
         entry |-> IF i # 0 THEN rd.database[i] ELSE NoEntry]

RECURSIVE Filter_firstOnly(_, _, _)
\* removes the first near entry only
Filter_firstOnly(database, i, energyData) ==
    IF i > Len(database) THEN <<>>
    ELSE IF Abs(database[i].latitude - energyData.latitude) < SaveTolerance
            /\ Abs(database[i].longitude - energyData.longitude) < SaveTolerance
    THEN SubSeq(database, i + 1, Len(database))
    ELSE <<database[i]>> \o Filter_firstOnly(database, i + 1, energyData)

RECURSIVE Filter_reversed(_, _, _)
\* keeps the right entries, in reverse order
Filter_reversed(database, i, energyData) ==
    IF i > Len(database) THEN <<>>
    ELSE Filter_reversed(database, i + 1, energyData)
         \o (IF Abs(database[i].latitude - energyData.latitude) < SaveTolerance
                 /\ Abs(database[i].longitude - energyData.longitude) < SaveTolerance
              THEN <<>> ELSE <<database[i]>>)

RECURSIVE Filter_sameCoordinateOnly(_, _, _)
\* removes the entries of exactly the new entry's coordinate only
Filter_sameCoordinateOnly(database, i, energyData) ==
    IF i > Len(database) THEN <<>>
    ELSE (IF database[i].latitude = energyData.latitude
             /\ database[i].longitude = energyData.longitude
          THEN <<>> ELSE <<database[i]>>)
         \o Filter_sameCoordinateOnly(database, i + 1, energyData)

RECURSIVE Filter_keepsNear(_, _, _)
\* the negation of the filter predicate dropped
Filter_keepsNear(database, i, energyData) ==
    IF i > Len(database) THEN <<>>
    ELSE (IF Abs(database[i].latitude - energyData.latitude) < SaveTolerance
             /\ Abs(database[i].longitude - energyData.longitude) < SaveTolerance
          THEN <<database[i]>> ELSE <<>>) \o Filter_keepsNear(database, i + 1, energyData)

RECURSIVE Filter(_, _, _)
\* database.filter(entry => !near(entry, energyData)), from i on
Filter(database, i, energyData) ==
    IF i > Len(database) THEN <<>>
    ELSE (IF Near(database[i], energyData.latitude, energyData.longitude, SaveTolerance)
          THEN <<>> ELSE <<database[i]>>) \o Filter(database, i + 1, energyData)

\* the error of writeDatabase is swallowed
saveEnergyData_swallowsError(file, disk, energyData) ==
    LET rd == readDatabase(file, disk)
        wr == writeDatabase(rd.file, Filter(rd.database, 1, energyData) \o <<energyData>>,
                            disk)
    IN  [file |-> wr.file, threw |-> FALSE]

\* appends without removing anything
saveEnergyData_noFilter(file, disk, energyData) ==
    LET rd == IF file.state = "absent" /\ disk # "ok"
              THEN [file |-> (IF disk = "fail" THEN file
                              ELSE [state |-> "corrupt", data |-> <<>>]),
                    database |-> <<>>]
              ELSE [file |-> file,
                    database |-> IF file.state = "ok" THEN file.data ELSE <<>>]
    IN  IF disk = "ok"
        THEN [file |-> [state |-> "ok", data |-> Append(rd.database, energyData)],
              threw |-> FALSE]
        ELSE [file |-> (IF disk = "fail" THEN rd.file
                        ELSE [state |-> "corrupt", data |-> <<>>]),
              threw |-> TRUE]

\* the array written is the new entry alone, whatever the file holds
saveEnergyData_replacesStore(file, disk, energyData) ==
    LET rd == readDatabase(file, disk)
    IN  writeDatabase(rd.file, <<energyData>>, disk)

\* [file, threw]; when it does not throw it returns energyData
saveEnergyData(file, disk, energyData) ==
    LET rd == readDatabase(file, disk)
        filteredDatabase == Filter(rd.database, 1, energyData)
    IN  writeDatabase(rd.file, Append(filteredDatabase, energyData), disk)

getAllData(file, disk) == readDatabase(file, disk)

-----------------------------------------------------------------------------
(* services/nasaService.js: what fetchNASAData can resolve to.  The        *)
(* upstream service is outside the program; a call either throws or        *)
(* returns {solar, wind, metadata} with both series present.               *)

NasaData(solar, wind, latitude, longitude) ==
    [solar |-> solar, wind |-> wind,
     metadata |-> [latitude |-> latitude, longitude |-> longitude]]

\* The climate record of a point: history, hence a function of the point.
Climate(latitude, longitude) ==
    IF latitude <= 0 THEN NasaData(SolarA, WindA, latitude, longitude)
    ELSE NasaData(SolarB, WindB, latitude, longitude)

\* the outcomes of one fetchNASAData(latitude, longitude) call
FetchResults(latitude, longitude) ==
    { [ok |-> FALSE, data |-> NasaData(UndefinedSamples, UndefinedSamples, 0, 0)],
      [ok |-> TRUE, data |-> Climate(latitude, longitude)] }

-----------------------------------------------------------------------------
(* controllers/energyController.js                                         *)
(*                                                                         *)
(* A handler runs without interruption up to `await fetchNASAData(...)`    *)
(* and, when the fetch settles, from there to its response: the file       *)
(* functions are synchronous.  A handler that is waiting is a record of    *)
(* reqs; the one that responded last is `last`.                            *)

\* the message of the error fetchNASAData throws, passed on to the client
ServerError_upstreamDetail == [error |-> "Failed to fetch data from NASA POWER API"]

\* the caught error's message is added to the body
ServerError_withDetail ==
    [error |-> "Internal server error",
     message |-> "Failed to fetch data from NASA POWER API"]

ServerError == [error |-> "Internal server error"]

EnergyData_swapped(latitude, longitude, solar, wind, nasaData, timestamp) ==
    [latitude |-> latitude, longitude |-> longitude, solar |-> wind,
     wind |-> solar, rawData |-> nasaData, timestamp |-> timestamp]

EnergyData(latitude, longitude, solar, wind, nasaData, timestamp) ==
    [latitude |-> latitude, longitude |-> longitude, solar |-> solar,
     wind |-> wind, rawData |-> nasaData, timestamp |-> timestamp]

\* the coordinate of the cached entry is echoed, not the request's
GetResponse_entryCoordinates(type, latitude, longitude, existingData) ==
    [status |-> 200,
     body |-> [latitude |-> existingData.latitude,
               longitude |-> existingData.longitude,
               solar |-> existingData.solar, wind |-> existingData.wind,
               timestamp |-> existingData.timestamp]]

\* the switch (type) of getEnergyData
GetResponse(type, latitude, longitude, existingData) ==
    CASE type = "solar" ->
           [status |-> 200,
            body |-> [latitude |-> latitude, longitude |-> longitude,
                      solar |-> existingData.solar,
                      timestamp |-> existingData.timestamp]]
      [] type = "wind" ->
           [status |-> 200,
            body |-> [latitude |-> latitude, longitude |-> longitude,
                      wind |-> existingData.wind,
                      timestamp |-> existingData.timestamp]]
      [] type = "both" ->
           [status |-> 200,
            body |-> [latitude |-> latitude, longitude |-> longitude,
                      solar |-> existingData.solar, wind |-> existingData.wind,
                      timestamp |-> existingData.timestamp]]
      [] OTHER -> [status |-> 400, body |-> [error |-> "Invalid energy type"]]

\* the entry is built and answered with, and never saved
GetMissBlock_noSave(file, disk, latitude, longitude, nasaData, now) ==
    [file |-> file, threw |-> FALSE,
     energyData |-> [latitude |-> latitude, longitude |-> longitude,
                     solar |-> calculateSolarEnergy(nasaData.solar, DefaultSolarArea,
                                                    DefaultSolarEfficiency).value,
                     wind |-> calculateWindEnergy(nasaData.wind, DefaultWindArea,
                                                  DefaultWindEfficiency).value,
                     rawData |-> nasaData, timestamp |-> now],
     saves |-> <<>>]

\* getEnergyData, the block `if (!existingData)` after `await fetchNASAData`
\* resolved with nasaData: default calculation, the new entry, saveEnergyData.
\* [file, threw, energyData, saves]: saves lists the arguments of the
\* saveEnergyData calls made.
GetMissBlock(file, disk, latitude, longitude, nasaData, now) ==
    LET solarEnergy == calculateSolarEnergy(nasaData.solar,
                           DefaultSolarArea, DefaultSolarEfficiency)
        windEnergy == calculateWindEnergy(nasaData.wind,
                           DefaultWindArea, DefaultWindEfficiency)
        existingData == EnergyData(latitude, longitude, solarEnergy.value,
                                   windEnergy.value, nasaData, now)
        sv == saveEnergyData(file, disk, existingData)
    IN  IF solarEnergy.threw \/ windEnergy.threw
        THEN [file |-> file, threw |-> TRUE, energyData |-> NoEntry, saves |-> <<>>]
        ELSE [file |-> sv.file, threw |-> sv.threw, energyData |-> existingData,
              saves |-> <<existingData>>]

\* calculateEnergy, the block `if (!energyData || !energyData.rawData)` after
\* the await; p holds area, solarEfficiency and windEfficiency of the request,
\* which the block has in scope and does not use.
CalcMissBlock_customParameters(file, disk, latitude, longitude, p, nasaData, now) ==
    LET solarEnergy == calculateSolarEnergy(nasaData.solar, p.area, p.solarEfficiency)
        windEnergy == calculateWindEnergy(nasaData.wind, p.area, p.windEfficiency)
        energyData == EnergyData(latitude, longitude, solarEnergy.value,
                                 windEnergy.value, nasaData, now)
        sv == saveEnergyData(file, disk, energyData)
    IN  IF solarEnergy.threw \/ windEnergy.threw
        THEN [file |-> file, threw |-> TRUE, energyData |-> NoEntry, saves |-> <<>>]
        ELSE [file |-> sv.file, threw |-> sv.threw, energyData |-> energyData,
              saves |-> <<energyData>>]

CalcMissBlock(file, disk, latitude, longitude, p, nasaData, now) ==
    LET solarEnergy == calculateSolarEnergy(nasaData.solar,
                           DefaultSolarArea, DefaultSolarEfficiency)
        windEnergy == calculateWindEnergy(nasaData.wind,
                           DefaultWindArea, DefaultWindEfficiency)
        energyData == EnergyData(latitude, longitude, solarEnergy.value,
                                 windEnergy.value, nasaData, now)
        sv == saveEnergyData(file, disk, energyData)
    IN  IF solarEnergy.threw \/ windEnergy.threw
        THEN [file |-> file, threw |-> TRUE, energyData |-> NoEntry, saves |-> <<>>]
        ELSE [file |-> sv.file, threw |-> sv.threw, energyData |-> energyData,
              saves |-> <<energyData>>]

\* the parameters are echoed and the records recomputed for every request
CalcResponse_alwaysCustom(latitude, longitude, p, energyData) ==
    [status |-> 200,
     body |-> [latitude |-> latitude, longitude |-> longitude,
               solar |-> calculateSolarEnergy(energyData.rawData.solar,
                                              p.area, p.solarEfficiency).value,
               wind |-> calculateWindEnergy(energyData.rawData.wind,
                                            p.area, p.windEfficiency).value,
               parameters |-> p]]

\* The end of calculateEnergy, from "Validate raw data exists" on.
\* p is [area, solarEfficiency, windEfficiency] after the defaults of the
\* destructuring were applied.
CalcResponse(latitude, longitude, p, energyData) ==
    IF ~energyData.rawData.solar.defined \/ ~energyData.rawData.wind.defined
    THEN [status |-> 500, body |-> [error |-> "Missing raw solar or wind data"]]
    ELSE IF p.area # DefaultSolarArea \/ p.solarEfficiency # DefaultSolarEfficiency
              \/ p.windEfficiency # DefaultWindEfficiency
    THEN LET customSolar == calculateSolarEnergy(energyData.rawData.solar,
                                p.area, p.solarEfficiency)
             customWind == calculateWindEnergy(energyData.rawData.wind,
                                p.area, p.windEfficiency)
         IN  [status |-> 200,
              body |-> [latitude |-> latitude, longitude |-> longitude,
                        solar |-> customSolar.value, wind |-> customWind.value,
                        parameters |-> p]]
    ELSE [status |-> 200,
          body |-> [latitude |-> latitude, longitude |-> longitude,
                    solar |-> energyData.solar, wind |-> energyData.wind]]

-----------------------------------------------------------------------------
(* The server: requests arrive, suspend at the fetch, and complete.        *)

MaxRequests == 2     \* requests received in one run
MaxInFlight == 2     \* handlers that may wait for their fetch at once

Slots == 1..MaxInFlight
Free == [pc |-> "free"]
NoRequest == [handler |-> "none"]

\* The requests of a run.  Every route is taken at one point; the other
\* coordinates (near, 0.01 away, out of range, not a number) are taken on
\* the /api/energy route.
GetLats == { <<"0">>, <<"0", ".", "0", "0", "5">>, <<"0", ".", "0", "1">>,
             <<"9", "1">>, <<"x">> }
GetLons == { <<"0", ".", "0", "0", "5">>, <<"1", "8", "1">> }
GetRequests ==
    { [type |-> t, lat |-> <<"0">>, lon |-> <<"0", ".", "0", "0", "5">>] :
        t \in {"solar", "wind", "both"} }
    \cup { [type |-> "both", lat |-> lat, lon |-> lon] : lat \in GetLats, lon \in GetLons }

\* POST bodies: every combination of a missing, zero, in-range and
\* out-of-range coordinate with no parameters, and one point with custom ones.
NoParameters == [area |-> Undefined, solarEfficiency |-> Undefined,
                 windEfficiency |-> Undefined]
CustomParameters ==
    { [area |-> Num(CustomArea), solarEfficiency |-> Undefined,
       windEfficiency |-> Undefined],
      [area |-> Num(DefaultSolarArea), solarEfficiency |-> Num(CustomSolarEfficiency),
       windEfficiency |-> Num(CustomWindEfficiency)] }
Body(latitude, longitude, p) ==
    [latitude |-> latitude, longitude |-> longitude, area |-> p.area,
     solarEfficiency |-> p.solarEfficiency, windEfficiency |-> p.windEfficiency]
PostBodies ==
    { Body(lat, lon, NoParameters) :
        lat \in {Undefined, Num(0), Num(5), Num(95000)}, lon \in {Undefined, Num(5)} }
    \cup { Body(Num(5), Num(5), p) : p \in CustomParameters }

InFlight == {i \in Slots : reqs[i].pc # "free"}
FreeSlot == CHOOSE i \in Slots : reqs[i].pc = "free" /\ \A j \in Slots : reqs[j].pc = "free" => i <= j

InitWrites(file) == IF file.state = "absent" THEN 1 ELSE 0

\* `x = dflt` of a destructuring: the default applies to undefined
OrDefault(x, dflt) == IF x.t = "undefined" THEN dflt ELSE x.v

Observe(file) ==
    [hist EXCEPT !.received = @ + 1,
                 !.overlap = @ \/ InFlight # {},
                 !.truncated = @ \/ file.state = "corrupt"]

\* a handler that responds without having awaited anything
Immediate(handler, type, input, latitude, longitude, p, read, hit, used, writes, served, resp) ==
    [handler |-> handler, type |-> type, input |-> input,
     latitude |-> latitude, longitude |-> longitude, p |-> p,
     read |-> read, hit |-> hit, fetches |-> 0, fetchOk |-> FALSE,
     fetched |-> NoEntry, saves |-> <<>>, stored |-> FALSE, used |-> used,
     writes |-> writes,
     afterServed |-> served, doneAt |-> clock,
     status |-> resp.status, body |-> resp.body]

Waiting(handler, type, input, latitude, longitude, p, writes, served) ==
    [pc |-> "fetching", handler |-> handler, type |-> type,
     input |-> input, latitude |-> latitude, longitude |-> longitude, p |-> p,
     writes |-> writes, afterServed |-> served]

NoParams == [area |-> 0, solarEfficiency |-> 0, windEfficiency |-> 0]

\* getEnergyData(type)(req, res) up to its response or to the await
GetStart(type, lat, lon, disk) ==
    /\ hist.received < MaxRequests
    /\ \E i \in Slots : reqs[i].pc = "free"
    /\ LET v == validateCoordinates(lat, lon)
           input == [lat |-> lat, lon |-> lon]
           latitude == v.latitude.v
           longitude == v.longitude.v
           f == findByCoordinates(dbFile, disk, latitude, longitude, Tolerance)
           served == <<latitude, longitude>> \in hist.served
       IN  IF ~v.valid
           THEN /\ last' = Immediate("get", type, input, 0, 0, NoParams, FALSE, FALSE,
                                     NoEntry, 0, FALSE, [status |-> 400, body |-> [error |-> v.error]])
                /\ hist' = Observe(dbFile)
                /\ UNCHANGED <<dbFile, reqs>>
           ELSE IF f.found
           THEN LET resp == GetResponse(type, latitude, longitude, f.entry)
                IN  /\ last' = Immediate("get", type, input, latitude, longitude, NoParams,
                                         TRUE, TRUE, f.entry, InitWrites(dbFile),
                                         served, resp)
                    /\ dbFile' = f.file
                    /\ hist' = [Observe(f.file) EXCEPT !.served =
                                   IF resp.status = 200
                                   THEN @ \cup {<<latitude, longitude>>} ELSE @]
                    /\ UNCHANGED reqs
           ELSE /\ reqs' = [reqs EXCEPT ![FreeSlot] =
                               Waiting("get", type, input, latitude, longitude, NoParams,
                                       InitWrites(dbFile), served)]
                /\ dbFile' = f.file
                /\ hist' = Observe(f.file)
                /\ UNCHANGED last
    /\ clock' = clock + 1
    /\ UNCHANGED <<op, vIn, vOut>>

\* a request with custom parameters fetches and saves although the entry
\* was found
CalcStart_customBypassesCache(body, disk) ==
    /\ hist.received < MaxRequests
    /\ \E i \in Slots : reqs[i].pc = "free"
    /\ LET p == [area |-> OrDefault(body.area, DefaultSolarArea),
                 solarEfficiency |-> OrDefault(body.solarEfficiency, DefaultSolarEfficiency),
                 windEfficiency |-> OrDefault(body.windEfficiency, DefaultWindEfficiency)]
           latitude == body.latitude.v
           longitude == body.longitude.v
           f == findByCoordinates(dbFile, disk, latitude, longitude, Tolerance)
       IN  IF Falsy(body.latitude) \/ Falsy(body.longitude)
           THEN /\ last' = Immediate("calc", "calc", body, 0, 0, p, FALSE, FALSE, NoEntry,
                                     0, FALSE,
                                     [status |-> 400,
                                      body |-> [error |-> "Latitude and longitude are required"]])
                /\ hist' = Observe(dbFile)
                /\ UNCHANGED <<dbFile, reqs>>
           ELSE IF ~f.found \/ "rawData" \notin DOMAIN f.entry
                   \/ p # [area |-> DefaultSolarArea,
                            solarEfficiency |-> DefaultSolarEfficiency,
                            windEfficiency |-> DefaultWindEfficiency]
           THEN /\ reqs' = [reqs EXCEPT ![FreeSlot] =
                               Waiting("calc", "calc", body, latitude, longitude, p,
                                       InitWrites(dbFile), FALSE)]
                /\ dbFile' = f.file
                /\ hist' = Observe(f.file)
                /\ UNCHANGED last
           ELSE /\ last' = Immediate("calc", "calc", body, latitude, longitude, p, TRUE, TRUE,
                                     f.entry, InitWrites(dbFile), FALSE,
                                     CalcResponse(latitude, longitude, p, f.entry))
                /\ dbFile' = f.file
                /\ hist' = Observe(f.file)
                /\ UNCHANGED reqs
    /\ clock' = clock + 1
    /\ UNCHANGED <<op, vIn, vOut>>

\* calculateEnergy(req, res) up to its response or to the await
CalcStart(body, disk) ==
    /\ hist.received < MaxRequests
    /\ \E i \in Slots : reqs[i].pc = "free"
    /\ LET p == [area |-> OrDefault(body.area, DefaultSolarArea),
                 solarEfficiency |-> OrDefault(body.solarEfficiency, DefaultSolarEfficiency),
                 windEfficiency |-> OrDefault(body.windEfficiency, DefaultWindEfficiency)]
           latitude == body.latitude.v
           longitude == body.longitude.v
           f == findByCoordinates(dbFile, disk, latitude, longitude, Tolerance)
       IN  IF Falsy(body.latitude) \/ Falsy(body.longitude)
           THEN /\ last' = Immediate("calc", "calc", body, 0, 0, p, FALSE, FALSE, NoEntry,
                                     0, FALSE,
                                     [status |-> 400,
                                      body |-> [error |-> "Latitude and longitude are required"]])
                /\ hist' = Observe(dbFile)
                /\ UNCHANGED <<dbFile, reqs>>
           ELSE IF ~f.found \/ "rawData" \notin DOMAIN f.entry
           THEN /\ reqs' = [reqs EXCEPT ![FreeSlot] =
                               Waiting("calc", "calc", body, latitude, longitude, p,
                                       InitWrites(dbFile), FALSE)]
                /\ dbFile' = f.file
                /\ hist' = Observe(f.file)
                /\ UNCHANGED last
           ELSE /\ last' = Immediate("calc", "calc", body, latitude, longitude, p, TRUE, TRUE,
                                     f.entry, InitWrites(dbFile), FALSE,
                                     CalcResponse(latitude, longitude, p, f.entry))
                /\ dbFile' = f.file
                /\ hist' = Observe(f.file)
                /\ UNCHANGED reqs
    /\ clock' = clock + 1
    /\ UNCHANGED <<op, vIn, vOut>>

\* The fetch of the handler in slot i settles and the handler runs to its
\* response: catch -> 500, or calculate, save and answer.
FetchSettle(i, result, disk) ==
    /\ reqs[i].pc = "fetching"
    /\ LET r == reqs[i]
           bs == IF r.handler = "get"
                 THEN GetMissBlock(dbFile, disk, r.latitude, r.longitude,
                                   result.data, clock)
                 ELSE CalcMissBlock(dbFile, disk, r.latitude, r.longitude, r.p,
                                    result.data, clock)
           failed == ~result.ok \/ bs.threw
           resp == IF failed THEN [status |-> 500, body |-> ServerError]
                   ELSE IF r.handler = "get"
                   THEN GetResponse(r.type, r.latitude, r.longitude, bs.energyData)
                   ELSE CalcResponse(r.latitude, r.longitude, r.p, bs.energyData)
           file == IF result.ok THEN bs.file ELSE dbFile
       IN  /\ last' = [handler |-> r.handler, type |-> r.type,
                       input |-> r.input, latitude |-> r.latitude,
                       longitude |-> r.longitude, p |-> r.p,
                       read |-> TRUE, hit |-> FALSE, fetches |-> 1,
                       fetchOk |-> result.ok,
                       fetched |-> IF result.ok THEN result.data ELSE NoEntry,
                       saves |-> IF result.ok THEN bs.saves ELSE <<>>,
                       stored |-> result.ok /\ \E k \in 1..Len(file.data) :
                                                  file.data[k] = bs.energyData,
                       used |-> IF failed THEN NoEntry ELSE bs.energyData,
                       writes |-> r.writes + (IF result.ok /\ bs.saves # <<>>
                                              THEN InitWrites(dbFile) + 1 ELSE 0),
                       afterServed |-> r.afterServed, doneAt |-> clock,
                       status |-> resp.status, body |-> resp.body]
           /\ dbFile' = file
           /\ hist' = [hist EXCEPT
                         !.truncated = @ \/ file.state = "corrupt",
                         !.served = IF r.handler = "get" /\ resp.status = 200
                                    THEN @ \cup {<<r.latitude, r.longitude>>} ELSE @]
    /\ reqs' = [reqs EXCEPT ![i] = Free]
    /\ clock' = clock + 1
    /\ UNCHANGED <<op, vIn, vOut>>

NotCalled == [valid |-> FALSE, latitude |-> Undefined, longitude |-> Undefined,
              error |-> "not called"]

\* A handler's first block writes only to create a missing file.
DiskAtStart == IF dbFile.state = "absent" THEN Disk ELSE {"ok"}

Init ==
    /\ dbFile = Absent
    /\ reqs = [i \in Slots |-> Free]
    /\ last = NoRequest
    /\ clock = 0
    /\ hist = [received |-> 0, overlap |-> FALSE, truncated |-> FALSE, served |-> {}]
    /\ op = [name |-> "none"]
    /\ vIn = <<>>
    /\ vOut = NotCalled

Next ==
    \/ \E r \in GetRequests, disk \in DiskAtStart : GetStart(r.type, r.lat, r.lon, disk)
    \/ \E body \in PostBodies, disk \in DiskAtStart : CalcStart(body, disk)
    \/ \E i \in InFlight, disk \in Disk :
          \E result \in FetchResults(reqs[i].latitude, reqs[i].longitude) :
             FetchSettle(i, result, disk)

Spec == Init /\ [][Next]_vars

-----------------------------------------------------------------------------
(* The database service called directly, one call after another, with      *)
(* entries at the points of a small grid around the tolerance.             *)

MaxSaves == 3        \* saveEnergyData calls in one run

StoreLats == {-5, 0, 5}
StoreLons == {0, 10}
FindTolerances == {Tolerance, 5}

\* an entry as the handlers build it for the point, created at time t
StoreEntry(latitude, longitude, t) ==
    LET nasaData == Climate(latitude, longitude)
    IN  EnergyData(latitude, longitude,
            calculateSolarEnergy(nasaData.solar, DefaultSolarArea,
                                 DefaultSolarEfficiency).value,
            calculateWindEnergy(nasaData.wind, DefaultWindArea,
                                DefaultWindEfficiency).value,
            nasaData, t)

\* what readDatabase returns for the file as it is
Database(file) == IF file.state = "ok" THEN file.data ELSE <<>>

\* `again` marks a call that directly follows a call that returned
CallInitialize(disk) ==
    /\ LET r == initializeDatabase(dbFile, disk)
       IN  /\ dbFile' = r.file
           /\ op' = [name |-> "initialize", before |-> dbFile, threw |-> r.threw,
                     again |-> op.name = "initialize" /\ ~op.threw]
    /\ UNCHANGED <<reqs, last, clock, hist, vIn, vOut>>

CallFind(latitude, longitude, tolerance, disk) ==
    /\ LET r == findByCoordinates(dbFile, disk, latitude, longitude, tolerance)
       IN  /\ dbFile' = r.file
           /\ op' = [name |-> "find", before |-> dbFile, latitude |-> latitude,
                     longitude |-> longitude, tolerance |-> tolerance,
                     found |-> r.found, entry |-> r.entry,
                     justSaved |-> IF op.name = "save" /\ ~op.threw
                                   THEN <<op.entry>> ELSE <<>>]
    /\ UNCHANGED <<reqs, last, clock, hist, vIn, vOut>>

CallSave(latitude, longitude, disk) ==
    /\ clock < MaxSaves
    /\ LET energyData == StoreEntry(latitude, longitude, clock)
           r == saveEnergyData(dbFile, disk, energyData)
       IN  /\ dbFile' = r.file
           /\ op' = [name |-> "save", before |-> dbFile, entry |-> energyData,
                     threw |-> r.threw]
    /\ clock' = clock + 1
    /\ UNCHANGED <<reqs, last, hist, vIn, vOut>>

CallGetAll(disk) ==
    /\ op.name # "getAll"
    /\ LET r == getAllData(dbFile, disk)
       IN  /\ dbFile' = r.file
           /\ op' = [name |-> "getAll", before |-> dbFile, result |-> r.database]
    /\ UNCHANGED <<reqs, last, clock, hist, vIn, vOut>>

StoreInit == Init

StoreNext ==
    \/ \E disk \in DiskAtStart : CallInitialize(disk)
    \/ \E latitude \in StoreLats, longitude \in StoreLons,
          tolerance \in FindTolerances, disk \in DiskAtStart :
          CallFind(latitude, longitude, tolerance, disk)
    \/ \E latitude \in StoreLats, longitude \in StoreLons, disk \in Disk :
          CallSave(latitude, longitude, disk)
    \/ \E disk \in DiskAtStart : CallGetAll(disk)

SpecStore == StoreInit /\ [][StoreNext]_vars

-----------------------------------------------------------------------------
(* validateCoordinates called directly on URL parameter strings.           *)

CoordSigns == { <<>>, <<"-">>, <<"+">> }
CoordFractions == { <<>>, <<".">>, <<".", "0">>, <<".", "0", "0", "1">> }
CoordTails == { <<>>, <<"x">> }
Decimals(integers) ==
    { sg \o n \o f \o tl : sg \in CoordSigns, n \in integers,
                           f \in CoordFractions, tl \in CoordTails }
LatStrings == Decimals({ <<>>, <<"0">>, <<"8", "9">>, <<"9", "0">>, <<"9", "1">> })
LonStrings == Decimals({ <<>>, <<"0">>, <<"1", "7", "9">>, <<"1", "8", "0">>,
                         <<"1", "8", "1">> })

ValidateInit ==
    /\ dbFile = Absent
    /\ reqs = [i \in Slots |-> Free]
    /\ last = NoRequest
    /\ clock = 0
    /\ hist = [received |-> 0, overlap |-> FALSE, truncated |-> FALSE, served |-> {}]
    /\ op = [name |-> "none"]
    /\ vIn \in LatStrings \X LonStrings
    /\ vOut = NotCalled

CallValidate ==
    /\ vOut = NotCalled
    /\ vOut' = validateCoordinates(vIn[1], vIn[2])
    /\ UNCHANGED <<dbFile, reqs, last, clock, hist, op, vIn>>

ValidateNext == CallValidate

SpecValidate == ValidateInit /\ [][ValidateNext]_vars

-----------------------------------------------------------------------------
(* The calculators called directly on a samples object.                    *)

MaxCalls == 3        \* calculator calls in one run
MaxKeys == 3         \* properties of the samples object

\* property names in the order Object.keys lists them: the integer-like
\* names ascending, then the others
KeyPool ==
    << <<"2", "0", "1", "2">>,
       <<"2", "0", "1", "2", "0", "0">>, <<"2", "0", "1", "2", "0", "1">>,
       <<"2", "0", "1", "2", "0", "2">>, <<"2", "0", "1", "2", "1", "3">>,
       <<"2", "0", "1", "2", "1", "4">>, <<"2", "0", "1", "3", "0", "1">>,
       <<"2", "0", "1", "2", "0", "x">> >>

SampleValues == {333, 400, 417, 500}     \* 3.33, 4.00, 4.17, 5.00

RECURSIVE Items(_, _, _)
\* the properties chosen by `chosen`, with the values of `val`, in pool order
Items(chosen, val, i) ==
    IF i > Len(KeyPool) THEN <<>>
    ELSE (IF i \in chosen THEN <<[key |-> KeyPool[i], val |-> val[i]]>> ELSE <<>>)
         \o Items(chosen, val, i + 1)

SampleObjects ==
    UNION { { Samples(Items(chosen, val, 1)) : val \in [chosen -> SampleValues] } :
              chosen \in {c \in SUBSET (1..Len(KeyPool)) : Cardinality(c) <= MaxKeys} }

\* <<area, efficiency>> of a call: the defaults or the custom parameters
SolarParameters ==
    { <<DefaultSolarArea, DefaultSolarEfficiency>>, <<CustomArea, CustomSolarEfficiency>> }
WindParameters ==
    { <<DefaultWindArea, DefaultWindEfficiency>>, <<CustomArea, CustomWindEfficiency>> }

CalcInit ==
    /\ dbFile = Absent
    /\ reqs = [i \in Slots |-> Free]
    /\ last = NoRequest
    /\ clock = 0
    /\ hist = [received |-> 0, overlap |-> FALSE, truncated |-> FALSE, served |-> {}]
    /\ \E data \in SampleObjects \cup {UndefinedSamples} :
          op = [name |-> "calculator", data |-> data, lastIndex |-> 0,
                calls |-> <<>>]
    /\ vIn = <<>>
    /\ vOut = NotCalled

Called(fn, area, efficiency, r) ==
    [fn |-> fn, area |-> area, efficiency |-> efficiency,
     threw |-> r.threw, out |-> r.value]

CallSolar(area, efficiency) ==
    /\ Len(op.calls) < MaxCalls
    /\ LET r == calculateSolarEnergyCall(op.lastIndex, op.data, area, efficiency)
       IN  op' = [op EXCEPT !.calls = Append(@, Called("solar", area, efficiency, r)),
                            !.lastIndex = r.lastIndex]
    /\ UNCHANGED <<dbFile, reqs, last, clock, hist, vIn, vOut>>

CallWind(area, efficiency) ==
    /\ Len(op.calls) < MaxCalls
    /\ LET r == calculateWindEnergyCall(op.lastIndex, op.data, area, efficiency)
       IN  op' = [op EXCEPT !.calls = Append(@, Called("wind", area, efficiency, r)),
                            !.lastIndex = r.lastIndex]
    /\ UNCHANGED <<dbFile, reqs, last, clock, hist, vIn, vOut>>

CalcNext ==
    \/ \E p \in SolarParameters : CallSolar(p[1], p[2])
    \/ \E p \in WindParameters : CallWind(p[1], p[2])

SpecCalc == CalcInit /\ [][CalcNext]_vars

-----------------------------------------------------------------------------
(* Properties of the database service (checked under SpecStore)            *)

CoordinateTolerance == 10       \* the documented 0.01 degree

Within(a, latitude, longitude, tolerance) ==
    /\ a.latitude - latitude < tolerance /\ latitude - a.latitude < tolerance
    /\ a.longitude - longitude < tolerance /\ longitude - a.longitude < tolerance

\* C1: starting from an empty store, after any sequence of saveEnergyData
\* calls no two distinct stored entries are within 0.01 degree of each other
\* in both latitude and longitude.
C1_NoNearDuplicates ==
    LET database == Database(dbFile)
    IN  \A i, j \in 1..Len(database) :
           i < j => ~Within(database[i], database[j].latitude,
                            database[j].longitude, CoordinateTolerance)

\* a successful save that removed an entry and left another one in place
C1_Witness ==
    /\ op.name = "save" /\ ~op.threw
    /\ Len(Database(dbFile)) >= 2
    /\ Len(Database(op.before)) >= Len(Database(dbFile))

\* C2: when the write succeeds, saveEnergyData(e) followed immediately by
\* findByCoordinates(e.latitude, e.longitude) returns e itself.
C2_SaveThenFind ==
    (/\ op.name = "find"
     /\ op.justSaved # <<>>
     /\ op.tolerance = Tolerance
     /\ op.latitude = op.justSaved[1].latitude
     /\ op.longitude = op.justSaved[1].longitude)
    => op.found /\ op.entry = op.justSaved[1]

\* the lookup right after a save that replaced an older entry of the point's
\* neighbourhood, in a store whose first entry is another one
C2_Witness ==
    /\ op.name = "find" /\ op.justSaved # <<>> /\ op.tolerance = Tolerance
    /\ op.latitude = op.justSaved[1].latitude
    /\ op.longitude = op.justSaved[1].longitude
    /\ op.found /\ op.entry = op.justSaved[1]
    /\ Len(Database(op.before)) >= 2
    /\ op.before.data[1] # op.entry
    /\ op.entry.timestamp >= 2

\* C3: if the store holds an entry a and an entry b within 0.01 degree of a
\* (both axes) is saved, then the store holds b, does not hold a, and holds
\* exactly one entry within tolerance of b's coordinate.
C3_ReplaceNotMerge ==
    LET before == Database(op.before)
        after == Database(dbFile)
        b == op.entry
        nearB(e) == Within(e, b.latitude, b.longitude, CoordinateTolerance)
    IN  (/\ op.name = "save" /\ ~op.threw
         /\ \E i \in 1..Len(before) : nearB(before[i]))
        => /\ \E j \in 1..Len(after) : after[j] = b
           /\ \A i \in 1..Len(before) :
                 nearB(before[i]) => \A j \in 1..Len(after) : after[j] # before[i]
           /\ Cardinality({j \in 1..Len(after) : nearB(after[j])}) = 1

\* a successful save whose entry is within tolerance of two stored entries
C3_Witness ==
    LET before == Database(op.before)
    IN  /\ op.name = "save" /\ ~op.threw
        /\ Cardinality({i \in 1..Len(before) :
               Within(before[i], op.entry.latitude, op.entry.longitude,
                      CoordinateTolerance)}) = 2
        /\ Len(Database(dbFile)) = 1

\* C4: findByCoordinates(lat, lon, tolerance) returns the first entry in
\* store order with |entry.lat - lat| < tolerance and |entry.lon - lon| <
\* tolerance, both strict, and none when no entry satisfies both.
C4_FirstMatch ==
    LET database == Database(op.before)
        matches == {i \in 1..Len(database) :
                      Within(database[i], op.latitude, op.longitude, op.tolerance)}
    IN  op.name = "find" =>
          IF matches = {} THEN ~op.found
          ELSE /\ op.found
               /\ \E i \in matches : /\ \A j \in matches : i <= j
                                     /\ op.entry = database[i]

\* a lookup that two entries match, answered by the earlier one, which is
\* not the first of the store
C4_Witness ==
    LET database == Database(op.before)
        matches == {i \in 1..Len(database) :
                      Within(database[i], op.latitude, op.longitude, op.tolerance)}
    IN  /\ op.name = "find" /\ op.found
        /\ Cardinality(matches) = 2
        /\ 1 \notin matches

-----------------------------------------------------------------------------
(* Properties of validateCoordinates (checked under SpecValidate)          *)

\* C10: validateCoordinates(lat, lon) returns valid = true with the parsed
\* latitude and longitude iff -90 <= parsed lat <= 90 and -180 <= parsed lon
\* <= 180, the four bounds included; otherwise valid = false with an error
\* message and no coordinates.
C10_ValidateRange ==
    LET lat == parseFloat(vIn[1])
        lon == parseFloat(vIn[2])
        inRange == /\ IsNum(lat) /\ -LatMax <= lat.v /\ lat.v <= LatMax
                   /\ IsNum(lon) /\ -LonMax <= lon.v /\ lon.v <= LonMax
    IN  vOut # NotCalled =>
          /\ vOut.valid <=> inRange
          /\ vOut.valid => /\ vOut.latitude = lat /\ vOut.longitude = lon
                           /\ vOut.error = ""
          /\ ~vOut.valid => /\ vOut.latitude = Undefined
                            /\ vOut.longitude = Undefined
                            /\ vOut.error # ""

\* the bounds themselves are accepted
C10_Witness ==
    /\ vOut.valid
    /\ vOut.latitude = Num(LatMax)
    /\ vOut.longitude = Num(-LonMax)

-----------------------------------------------------------------------------
(* Properties of the request handlers (checked under Spec)                 *)

\* the store was never left truncated by a failed write and no two requests
\* were in progress at the same time
SequentialIntactStore == ~hist.overlap /\ ~hist.truncated

C6_MissFetchSave ==
    (last.handler = "get" /\ ~last.hit /\ last.fetchOk) =>
      /\ last.fetches = 1
      /\ Len(last.saves) = 1
      /\ LET e == last.saves[1]
         IN  /\ e.latitude = parseFloat(last.input.lat).v
             /\ e.longitude = parseFloat(last.input.lon).v
             /\ e.solar = calculateSolarEnergy(last.fetched.solar, DefaultSolarArea,
                                               DefaultSolarEfficiency).value
             /\ e.wind = calculateWindEnergy(last.fetched.wind, DefaultWindArea,
                                             DefaultWindEfficiency).value
             /\ e.rawData = last.fetched
             /\ e.timestamp = last.doneAt
             /\ last.status \in {200, 500}
             /\ last.status = 200 =>
                  /\ last.stored
                  /\ \E k \in 1..Len(Database(dbFile)) : Database(dbFile)[k] = e
                  /\ "solar" \in DOMAIN last.body => last.body.solar = e.solar
                  /\ "wind" \in DOMAIN last.body => last.body.wind = e.wind
                  /\ last.body.timestamp = e.timestamp

\* a miss on /api/energy answered 200 with both records of the entry saved
C6_Witness ==
    /\ last.handler = "get" /\ ~last.hit /\ last.fetchOk
    /\ last.status = 200 /\ last.type = "both"
    /\ Len(last.saves) = 1
    /\ last.body.solar = last.saves[1].solar
    /\ last.body.wind # last.body.solar
    /\ last.stored

DefaultOutputs(e) ==
    /\ e.solar = calculateSolarEnergy(e.rawData.solar, DefaultSolarArea,
                                      DefaultSolarEfficiency).value
    /\ e.wind = calculateWindEnergy(e.rawData.wind, DefaultWindArea,
                                    DefaultWindEfficiency).value

IsCustom(p) ==
    \/ p.area # DefaultSolarArea
    \/ p.solarEfficiency # DefaultSolarEfficiency
    \/ p.windEfficiency # DefaultWindEfficiency

\* C7: in every state reachable by GET and POST /api/calculate requests,
\* each stored entry's solar and wind fields are the default-parameter
\* calculator outputs for that entry's rawData; a custom-parameter request
\* returns its recomputed result without writing it to the store.
C7_OnlyDefaultsStored ==
    /\ \A k \in 1..Len(Database(dbFile)) : DefaultOutputs(Database(dbFile)[k])
    /\ (last.handler = "calc" /\ last.status = 200 /\ IsCustom(last.p)) =>
          /\ last.body.solar = calculateSolarEnergy(last.used.rawData.solar,
                                   last.p.area, last.p.solarEfficiency).value
          /\ last.body.wind = calculateWindEnergy(last.used.rawData.wind,
                                  last.p.area, last.p.windEfficiency).value
          /\ last.body.parameters = last.p
          /\ \A k \in 1..Len(last.saves) : DefaultOutputs(last.saves[k])
          /\ \A k \in 1..Len(Database(dbFile)) :
                \/ Database(dbFile)[k].solar # last.body.solar
                \/ Database(dbFile)[k].wind # last.body.wind

\* a custom-parameter request that missed, fetched, stored the default entry
\* and answered with other values
C7_Witness ==
    /\ last.handler = "calc" /\ last.status = 200 /\ IsCustom(last.p)
    /\ last.fetches = 1 /\ Len(last.saves) = 1 /\ last.stored
    /\ last.body.solar # last.saves[1].solar
    /\ last.body.wind # last.saves[1].wind

\* every entry a handler has passed to saveEnergyData or that is in the store
SavedEntries ==
    {Database(dbFile)[k] : k \in 1..Len(Database(dbFile))}
    \cup (IF last.handler = "none" THEN {}
          ELSE {last.saves[k] : k \in 1..Len(last.saves)})

InvalidInput(handler, input) ==
    IF handler = "get"
    THEN LET lat == parseFloat(input.lat)
             lon == parseFloat(input.lon)
         IN  \/ ~IsNum(lat) \/ ~IsNum(lon)
             \/ lat.v < -90000 \/ lat.v > 90000
             \/ lon.v < -180000 \/ lon.v > 180000
    ELSE \/ ~IsNum(input.latitude) \/ ~IsNum(input.longitude)
         \/ input.latitude.v < -90000 \/ input.latitude.v > 90000
         \/ input.longitude.v < -180000 \/ input.longitude.v > 180000

\* C9: every request, GET /api/{solar,wind,energy}/{lat}/{lon} or POST
\* /api/calculate, whose latitude is outside [-90,90], whose longitude is
\* outside [-180,180], or whose coordinate is missing or non-numeric is
\* answered with status 400 and an error message, with no cache read, no
\* upstream fetch and no cache write having happened.
C9_InvalidRejected ==
    /\ \A i \in InFlight : ~InvalidInput(reqs[i].handler, reqs[i].input)
    /\ (last.handler # "none" /\ InvalidInput(last.handler, last.input)) =>
          /\ last.status = 400
          /\ "error" \in DOMAIN last.body
          /\ ~last.read
          /\ last.fetches = 0
          /\ last.writes = 0

\* C11: POST /api/calculate never rejects with 400 a body whose latitude is
\* in [-90,90] and whose longitude is in [-180,180]; this includes latitude
\* = 0 and longitude = 0, which are processed like any other in-range
\* coordinate.
C11_InRangeNotRejected ==
    (/\ last.handler = "calc"
     /\ IsNum(last.input.latitude) /\ IsNum(last.input.longitude)
     /\ -90000 <= last.input.latitude.v /\ last.input.latitude.v <= 90000
     /\ -180000 <= last.input.longitude.v /\ last.input.longitude.v <= 180000)
    => last.status # 400

\* a handler's fetch has just settled with a failure
FetchFailedStep ==
    /\ \E i \in Slots : reqs[i].pc = "fetching" /\ reqs'[i].pc = "free"
    /\ ~last'.fetchOk

\* a handler has just suspended at the fetch, after its cache miss
SuspendStep ==
    \E i \in Slots : reqs[i].pc = "free" /\ reqs'[i].pc = "fetching"

\* C12: when the upstream fetch fails during a request (GET or POST) that
\* missed the cache, the fetcher has been invoked exactly once, the store is
\* left unchanged (no entry is saved), and the response is status 500 with
\* the body {error: 'Internal server error'}, carrying no partial data and
\* no upstream detail.
C12_FetchFailure ==
    [][/\ SuspendStep => Database(dbFile') = Database(dbFile)
       /\ FetchFailedStep =>
            /\ dbFile' = dbFile
            /\ last'.read /\ ~last'.hit
            /\ last'.fetches = 1
            /\ last'.saves = <<>>
            /\ last'.status = 500
            /\ last'.body = [error |-> "Internal server error"]]_vars

\* a POST whose fetch failed, answered 500 while the entry of an earlier
\* request is still in the store
C12_Witness ==
    /\ last.handler = "calc" /\ last.fetches = 1 /\ ~last.fetchOk
    /\ last.status = 500
    /\ Len(Database(dbFile)) = 1
    /\ Database(dbFile)[1].latitude # last.latitude

\* the request that completed last fetched, computed and called
\* saveEnergyData, and the store does not hold its entry: the write failed
WriteFailed(l, file) ==
    /\ l.handler # "none" /\ l.fetchOk /\ Len(l.saves) = 1
    /\ \A k \in 1..Len(Database(file)) : Database(file)[k] # l.saves[1]

\* C13: when the store write fails in a request that missed the cache, after
\* a successful fetch and calculation, the request is answered with a 500
\* error instead of the computed data, and, the store not holding the entry,
\* the next identical request misses the cache and fetches again.  (Requests
\* are sequential.)
C13_WriteFailure ==
    [][/\ (/\ \E i \in Slots : reqs[i].pc = "fetching" /\ reqs'[i].pc = "free"
           /\ WriteFailed(last', dbFile'))
          => /\ last'.status = 500
             /\ last'.body = [error |-> "Internal server error"]
             /\ ~last'.stored
       /\ (/\ ~hist.overlap /\ InFlight = {}
           /\ WriteFailed(last, dbFile)
           /\ hist'.received = hist.received + 1)
          => /\ ~(last' # last /\ last'.handler = last.handler
                               /\ last'.input = last.input)
             /\ \A i \in Slots :
                   (reqs'[i].pc = "fetching" /\ reqs'[i].handler = last.handler
                      /\ reqs'[i].input = last.input)
                   => Database(dbFile') = Database(dbFile)]_vars

\* after a request whose write failed and was answered 500, the same request
\* has arrived again, missed and is waiting for its fetch
C13_Witness ==
    /\ ~hist.overlap
    /\ WriteFailed(last, dbFile) /\ last.status = 500
    /\ \E i \in InFlight : /\ reqs[i].handler = last.handler
                           /\ reqs[i].input = last.input
                           /\ reqs[i].type = last.type

\* C14: two concurrent requests for the same or nearby (within 0.01 degree)
\* uncached coordinates can both miss the cache, both invoke the fetcher and
\* both save; the last writer wins: the store then holds only the later
\* saver's entry for that neighbourhood and the earlier saver's entry is
\* lost.  Two such saves happen only when the requests overlapped.
C14_LastWriterWins ==
    [][(/\ \E i \in Slots : reqs[i].pc = "fetching" /\ reqs'[i].pc = "free"
        /\ last.handler # "none" /\ last.fetches = 1 /\ last.stored
        /\ last'.fetches = 1 /\ last'.stored
        /\ Within(last.saves[1], last'.saves[1].latitude, last'.saves[1].longitude,
                  CoordinateTolerance))
       => LET a == last.saves[1]
              b == last'.saves[1]
              after == Database(dbFile')
          IN  /\ hist.overlap
              /\ \E k \in 1..Len(after) : after[k] = b
              /\ \A k \in 1..Len(after) : after[k] # a
              /\ Cardinality({k \in 1..Len(after) :
                     Within(after[k], b.latitude, b.longitude,
                            CoordinateTolerance)}) = 1]_vars

\* two overlapping GET requests for points 0.005 degree apart were both
\* answered 200 after a fetch and a save, and the store holds one entry, the
\* later one's
C14_Witness ==
    /\ hist.overlap /\ hist.received = 2 /\ InFlight = {}
    /\ Cardinality(hist.served) = 2
    /\ \A c, d \in hist.served : Abs(c[1] - d[1]) < 10 /\ Abs(c[2] - d[2]) < 10
    /\ last.fetches = 1 /\ last.stored
    /\ Database(dbFile) = <<last.saves[1]>>

\* the write of this step did not truncate the file
NoTruncation == dbFile'.state = "corrupt" => dbFile.state = "corrupt"

RequestLatitude(l) ==
    IF l.handler = "get" THEN parseFloat(l.input.lat).v ELSE l.input.latitude.v
RequestLongitude(l) ==
    IF l.handler = "get" THEN parseFloat(l.input.lon).v ELSE l.input.longitude.v

\* C16 as stated: every successful response, for GET with selector solar,
\* wind or both and for POST /api/calculate with default or custom
\* parameters, contains the request's latitude and longitude and a
\* timestamp; a GET response contains solar iff the selector is solar or
\* both and wind iff the selector is wind or both.
C16_AsStated ==
    (last.handler # "none" /\ last.status = 200) =>
      /\ last.body.latitude = RequestLatitude(last)
      /\ last.body.longitude = RequestLongitude(last)
      /\ "timestamp" \in DOMAIN last.body
      /\ last.handler = "get" =>
           /\ "solar" \in DOMAIN last.body <=> last.type \in {"solar", "both"}
           /\ "wind" \in DOMAIN last.body <=> last.type \in {"wind", "both"}

\* C16: every successful response contains the request's latitude and
\* longitude; a GET response also contains the entry's timestamp, solar iff
\* the selector is solar or both and wind iff the selector is wind or both;
\* a POST /api/calculate response contains solar and wind and no timestamp.
C16_ResponseShape ==
    (last.handler # "none" /\ last.status = 200) =>
      /\ last.body.latitude = RequestLatitude(last)
      /\ last.body.longitude = RequestLongitude(last)
      /\ last.handler = "get" =>
           /\ "timestamp" \in DOMAIN last.body
           /\ last.body.timestamp = last.used.timestamp
           /\ "solar" \in DOMAIN last.body <=> last.type \in {"solar", "both"}
           /\ "wind" \in DOMAIN last.body <=> last.type \in {"wind", "both"}
      /\ last.handler = "calc" =>
           /\ "timestamp" \notin DOMAIN last.body
           /\ "solar" \in DOMAIN last.body
           /\ "wind" \in DOMAIN last.body

\* a GET answered from an entry stored for a point 0.005 degree away: the
\* response carries the request's coordinate and the entry's timestamp
C16_Witness ==
    /\ last.handler = "get" /\ last.status = 200 /\ last.hit
    /\ last.used.latitude # last.body.latitude
    /\ last.body.timestamp = last.used.timestamp

\* the value of an optional field of the body, or the documented default
Given(x, documented) == IF x.t = "undefined" THEN documented ELSE x.v

\* C17: a successful POST /api/calculate response contains the field
\* parameters iff at least one of area, solarEfficiency, windEfficiency
\* differs from the defaults 1, 0.2, 0.4; when present it echoes the three
\* values used and solar/wind are recomputed from the entry's raw samples
\* with them; when absent, solar/wind are the cached default records.
C17_ParametersField ==
    (last.handler = "calc" /\ last.status = 200) =>
      LET area == Given(last.input.area, 100)
          solarEfficiency == Given(last.input.solarEfficiency, 20)
          windEfficiency == Given(last.input.windEfficiency, 40)
      IN  /\ "parameters" \in DOMAIN last.body
               <=> (area # 100 \/ solarEfficiency # 20 \/ windEfficiency # 40)
          /\ "parameters" \in DOMAIN last.body =>
               /\ last.body.parameters = [area |-> area,
                                          solarEfficiency |-> solarEfficiency,
                                          windEfficiency |-> windEfficiency]
               /\ last.body.solar = calculateSolarEnergy(last.used.rawData.solar,
                                              area, solarEfficiency).value
               /\ last.body.wind = calculateWindEnergy(last.used.rawData.wind,
                                            area, windEfficiency).value
          /\ "parameters" \notin DOMAIN last.body =>
               /\ last.body.solar = last.used.solar
               /\ last.body.wind = last.used.wind

\* a custom-parameter request answered from an entry an earlier request
\* stored, with the parameters echoed
C17_Witness ==
    /\ last.handler = "calc" /\ last.status = 200 /\ last.hit
    /\ "parameters" \in DOMAIN last.body
    /\ last.body.parameters.solarEfficiency = CustomSolarEfficiency
    /\ last.body.solar # last.used.solar

ValidationMessages ==
    {"Invalid coordinate format", "Latitude must be between -90 and 90",
     "Longitude must be between -180 and 180",
     "Latitude and longitude are required"}

\* C18: every error response is a JSON object with the single string field
\* error, with status 400 exactly when the cause is a validation failure
\* (the handler rejected the request before any I/O) and status 500 for
\* every other failure (fetch failure, store write failure); no failure path
\* yields another status or a success body.
C18_ErrorResponses ==
    last.handler # "none" =>
      /\ last.status \in {200, 400, 500}
      /\ last.status = 400 <=> ~last.read
      /\ last.status = 500 <=>
           (last.fetches = 1 /\ (~last.fetchOk \/ WriteFailed(last, dbFile)))
      /\ last.status = 400 =>
           /\ DOMAIN last.body = {"error"}
           /\ last.body.error \in ValidationMessages
           /\ last.fetches = 0 /\ last.saves = <<>>
      /\ last.status = 500 =>
           /\ DOMAIN last.body = {"error"}
           /\ last.body.error = "Internal server error"
      /\ last.status = 200 => "error" \notin DOMAIN last.body

\* a request whose fetch and calculation succeeded and whose write failed is
\* answered with the error object, not with the computed data
C18_Witness ==
    /\ last.handler # "none" /\ last.status = 500
    /\ last.fetchOk /\ Len(last.saves) = 1
    /\ DOMAIN last.body = {"error"}

-----------------------------------------------------------------------------
(* Properties of the calculators (checked under SpecCalc)                  *)

\* a period key the calculators accept: six digits, not ending in 13
Accepted(key) ==
    /\ Len(key) = 6
    /\ \A i \in 1..6 : key[i] \in {"0", "1", "2", "3", "4", "5", "6", "7", "8", "9"}
    /\ <<key[5], key[6]>> # <<"1", "3">>

YearOf(key) == <<key[1], key[2], key[3], key[4]>>
MonthOf(key) == <<key[5], key[6]>>

\* C19: for every accepted period key YYYYMM, calculateSolarEnergy stores
\* under year YYYY and month MM the value irradiance * area * efficiency * 30
\* rounded to 2 decimals; in particular calculateSolarEnergy({"201201": 4.0},
\* 1, 0.2) returns {"2012": {"01": 24.00, "annual": 24.00}}.
C19_SolarMonthly ==
    op.name = "calculator" =>
      \A c \in 1..Len(op.calls) :
         (op.calls[c].fn = "solar" /\ ~op.calls[c].threw) =>
           LET call == op.calls[c]
               items == op.data.items
           IN  /\ \A k \in 1..Len(items) :
                     Accepted(items[k].key) =>
                       /\ YearOf(items[k].key) \in DOMAIN call.out
                       /\ MonthOf(items[k].key) \in DOMAIN call.out[YearOf(items[k].key)]
                       /\ call.out[YearOf(items[k].key)][MonthOf(items[k].key)]
                            = (items[k].val * call.area * call.efficiency * 30 + 5000)
                                \div 10000
               /\ (/\ items = << [key |-> <<"2", "0", "1", "2", "0", "1">>, val |-> 400] >>
                   /\ call.area = 100 /\ call.efficiency = 20)
                  => call.out = ( <<"2", "0", "1", "2">> :>
                                    ( <<"0", "1">> :> 2400 @@
                                      <<"a", "n", "n", "u", "a", "l">> :> 2400 ) )

\* the call of the example, and a call with area 2.01 and efficiency 0.22 in
\* which one product is rounded down (4.00 * 2.01 * 0.22 * 30 = 53.064) and
\* one is rounded up (4.17 * 2.01 * 0.22 * 30 = 55.31922)
C19_Witness ==
    /\ op.name = "calculator" /\ Len(op.calls) = 2
    /\ op.calls[1].fn = "solar" /\ op.calls[1].area = 100 /\ op.calls[1].efficiency = 20
    /\ op.calls[2].fn = "solar" /\ op.calls[2].area = 201 /\ op.calls[2].efficiency = 22
    /\ op.data.items = << [key |-> <<"2", "0", "1", "2", "0", "1">>, val |-> 400],
                          [key |-> <<"2", "0", "1", "2", "0", "2">>, val |-> 417],
                          [key |-> <<"2", "0", "1", "3", "0", "1">>, val |-> 333] >>
    /\ op.calls[1].out[<<"2", "0", "1", "2">>][<<"0", "1">>] = 2400
    /\ op.calls[2].out[<<"2", "0", "1", "2">>][<<"0", "1">>] = 5306
    /\ op.calls[2].out[<<"2", "0", "1", "2">>][<<"0", "2">>] = 5532

\* 0.5 * 1.225 * 1256.64 * v^3 * 0.4 * 720 / 1,000,000 rounded to 2 decimals,
\* for the wind speeds 3.33, 4.00, 4.17 and 5.00 m/s: 8.1854..., 14.1869...,
\* 16.0737..., 27.708912
DefaultWindEnergy == (333 :> 819) @@ (400 :> 1419) @@ (417 :> 1607) @@ (500 :> 2771)

\* every accepted key's value is stored under its year and month, and with
\* the default area and efficiency it is the tabulated one
WindMonthlyStored(call, items) ==
    \A k \in 1..Len(items) :
       Accepted(items[k].key) =>
         /\ YearOf(items[k].key) \in DOMAIN call.out
         /\ MonthOf(items[k].key) \in DOMAIN call.out[YearOf(items[k].key)]
         /\ call.out[YearOf(items[k].key)][MonthOf(items[k].key)]
              = WindMonth(items[k].val, call.area, call.efficiency)
         /\ (call.area = 125664 /\ call.efficiency = 40) =>
              call.out[YearOf(items[k].key)][MonthOf(items[k].key)]
                = DefaultWindEnergy[items[k].val]

WindExample(call, items, m) ==
    (/\ items = << [key |-> <<"2", "0", "1", "2", "0", "1">>, val |-> 500] >>
     /\ call.area = 125664 /\ call.efficiency = 40)
    => call.out = ( <<"2", "0", "1", "2">> :>
                      ( <<"0", "1">> :> m @@ <<"a", "n", "n", "u", "a", "l">> :> m ) )

\* C20 as stated: for every accepted period key, calculateWindEnergy stores
\* 0.5 * 1.225 * area * v^3 * efficiency * 720 / 1,000,000 rounded to 2
\* decimals; calculateWindEnergy({"201201": 5.0}, 1256.64, 0.4) returns
\* {"2012": {"01": m, "annual": m}} with m = 27.72.
C20_AsStated ==
    op.name = "calculator" =>
      \A c \in 1..Len(op.calls) :
         (op.calls[c].fn = "wind" /\ ~op.calls[c].threw) =>
           /\ WindMonthlyStored(op.calls[c], op.data.items)
           /\ WindExample(op.calls[c], op.data.items, 2772)

\* C20: for every accepted period key, calculateWindEnergy stores 0.5 *
\* 1.225 * area * v^3 * efficiency * 720 / 1,000,000 rounded to 2 decimals;
\* calculateWindEnergy({"201201": 5.0}, 1256.64, 0.4) returns {"2012":
\* {"01": m, "annual": m}} with m = 27.71, the rounding of 27.708912.
C20_WindMonthly ==
    op.name = "calculator" =>
      \A c \in 1..Len(op.calls) :
         (op.calls[c].fn = "wind" /\ ~op.calls[c].threw) =>
           /\ WindMonthlyStored(op.calls[c], op.data.items)
           /\ WindExample(op.calls[c], op.data.items, 2771)

\* the call of the example
C20_Witness ==
    /\ op.name = "calculator" /\ Len(op.calls) >= 1
    /\ op.calls[1].fn = "wind" /\ op.calls[1].area = 125664
    /\ op.calls[1].efficiency = 40
    /\ op.data.items = << [key |-> <<"2", "0", "1", "2", "0", "1">>, val |-> 500] >>
    /\ op.calls[1].out[<<"2", "0", "1", "2">>][<<"0", "1">>] = 2771
    /\ op.calls[1].out[<<"2", "0", "1", "2">>][<<"a", "n", "n", "u", "a", "l">>] = 2771

RECURSIVE SumOver(_, _)
\* the sum of rec[m] over the keys m of the set months
SumOver(rec, months) ==
    IF months = {} THEN 0
    ELSE LET m == CHOOSE x \in months : TRUE
         IN  rec[m] + SumOver(rec, months \ {m})

\* the calculator calls of the run that returned
Returns == {c \in 1..Len(op.calls) : ~op.calls[c].threw}

\* C21: for every year in the output of either calculator, annual is built
\* by starting at 0 and adding each accepted month's rounded energy, the
\* total being re-rounded to 2 decimals; with all values exact multiples of
\* 0.01 the final annual equals the sum of that year's monthly values in the
\* output.
C21_AnnualIsSum ==
    op.name = "calculator" =>
      \A c \in Returns :
         \A year \in DOMAIN op.calls[c].out :
            LET rec == op.calls[c].out[year]
            IN  /\ Annual \in DOMAIN rec
                /\ rec[Annual] = SumOver(rec, DOMAIN rec \ {Annual})

\* a year with two months of different energy next to a year with one
C21_Witness ==
    /\ op.name = "calculator" /\ Len(op.calls) >= 1 /\ ~op.calls[1].threw
    /\ LET out == op.calls[1].out
       IN  /\ DOMAIN out = { <<"2", "0", "1", "2">>, <<"2", "0", "1", "3">> }
           /\ DOMAIN out[<<"2", "0", "1", "2">>]
                = { <<"0", "1">>, <<"0", "2">>, Annual }
           /\ out[<<"2", "0", "1", "2">>][<<"0", "1">>]
                # out[<<"2", "0", "1", "2">>][<<"0", "2">>]
           /\ out[<<"2", "0", "1", "2">>][Annual]
                > out[<<"2", "0", "1", "2">>][<<"0", "2">>]

RECURSIVE AcceptedItems(_, _)
\* the properties with an accepted key, from the i-th on
AcceptedItems(items, i) ==
    IF i > Len(items) THEN <<>>
    ELSE (IF Accepted(items[i].key) THEN <<items[i]>> ELSE <<>>)
         \o AcceptedItems(items, i + 1)

\* C22: in both calculators an input key contributes to the output iff it
\* consists of exactly six digits and does not end in "13"; a key ending in
\* "13" produces no month entry, creates no year record on its own and
\* changes no annual total, whatever value it maps to.
C22_KeyFilter ==
    op.name = "calculator" =>
      LET kept == AcceptedItems(op.data.items, 1)
          years == {YearOf(kept[k].key) : k \in 1..Len(kept)}
          months == [year \in years |->
                       {MonthOf(kept[k].key) :
                          k \in {j \in 1..Len(kept) : YearOf(kept[j].key) = year}}]
      IN  \A c \in Returns :
             LET call == op.calls[c]
             IN  /\ DOMAIN call.out = years
                 /\ \A year \in years :
                       DOMAIN call.out[year] = {Annual} \cup months[year]
                 /\ call.out =
                      (IF call.fn = "solar"
                       THEN calculateSolarEnergy(Samples(kept), call.area,
                                                 call.efficiency).value
                       ELSE calculateWindEnergy(Samples(kept), call.area,
                                                call.efficiency).value)

\* a samples object with a month of 2012, the annual average "201213" and a
\* key that is not six digits: the output is the one of the month alone
C22_Witness ==
    /\ op.name = "calculator" /\ Len(op.calls) >= 1 /\ ~op.calls[1].threw
    /\ Len(op.data.items) = 3
    /\ op.data.items[1].key = <<"2", "0", "1", "2">>
    /\ op.data.items[2].key = <<"2", "0", "1", "2", "0", "1">>
    /\ op.data.items[3].key = <<"2", "0", "1", "2", "1", "3">>
    /\ DOMAIN op.calls[1].out = { <<"2", "0", "1", "2">> }
    /\ DOMAIN op.calls[1].out[<<"2", "0", "1", "2">>] = { <<"0", "1">>, Annual }

\* the month strings of a calendar year
Months ==
    { <<"0", d>> : d \in {"1", "2", "3", "4", "5", "6", "7", "8", "9"} }
      \cup { <<"1", "0">>, <<"1", "1">>, <<"1", "2">> }

\* C23: for every input mapping, including six-digit keys whose last two
\* digits are 00 or 14 to 99, every key other than annual in every year
\* record produced by either calculator is a two-digit month string in
\* "01".."12".
C23_MonthKeys ==
    op.name = "calculator" =>
      \A c \in Returns :
         \A year \in DOMAIN op.calls[c].out :
            DOMAIN op.calls[c].out[year] \ {Annual} \subseteq Months

\* C24: neither calculator raises an error for any input: given an empty
\* samples mapping, or a missing one (undefined or null), both calculators
\* return an empty result collection.
C24_NeverRaises ==
    op.name = "calculator" =>
      \A c \in 1..Len(op.calls) :
         /\ ~op.calls[c].threw
         /\ (~op.data.defined \/ op.data.items = <<>>)
              => op.calls[c].out = <<>>

\* C25: each calculator is a pure function: two calls with identical
\* samples, area and efficiency return identical outputs whatever calls were
\* made in between, and a call neither modifies its input mapping nor
\* depends on or changes any state shared between calls (the lastIndex of
\* MONTH_KEY is the module's only mutable state).
C25_Pure ==
    /\ [](op.name = "calculator" =>
            /\ op.lastIndex = 0
            /\ \A c, d \in 1..Len(op.calls) :
                  (/\ op.calls[c].fn = op.calls[d].fn
                   /\ op.calls[c].area = op.calls[d].area
                   /\ op.calls[c].efficiency = op.calls[d].efficiency)
                    => /\ op.calls[c].threw = op.calls[d].threw
                       /\ op.calls[c].out = op.calls[d].out)
    /\ [][op.name = "calculator" => op'.data = op.data]_vars

\* the same call made twice with a call of the other calculator in between,
\* on samples with an odd number of six-digit keys
C25_Witness ==
    /\ op.name = "calculator" /\ Len(op.calls) = 3
    /\ op.calls[1].fn = "solar" /\ op.calls[2].fn = "wind" /\ op.calls[3].fn = "solar"
    /\ op.calls[1].area = op.calls[3].area
    /\ op.calls[1].efficiency = op.calls[3].efficiency
    /\ Len(op.data.items) = 3
    /\ \A i \in 1..3 : MONTH_KEY(op.data.items[i].key)
    /\ op.calls[3].out # <<>>
    /\ op.calls[2].out # <<>>

-----------------------------------------------------------------------------
(* initializeDatabase (checked under SpecStore)                            *)

\* C26: initializeDatabase is idempotent: when the backing store is absent
\* it creates it as an empty collection; when the store already exists, with
\* any content, it leaves that content unchanged; calling it any number of
\* times, including before every read, has the same effect as calling it
\* once.  (A call whose write fails throws; the claim is about the calls
\* that return.)
C26_InitializeIdempotent ==
    [][ /\ (op'.name = "initialize" /\ ~op'.threw) =>
             /\ dbFile.state = "absent" => dbFile' = Stored(<<>>)
             /\ dbFile.state # "absent" => dbFile' = dbFile
             /\ \A disk \in Disk :
                   initializeDatabase(dbFile', disk) = [file |-> dbFile', threw |-> FALSE]
        /\ (op'.name = "initialize" /\ dbFile.state # "absent") => ~op'.threw
        /\ (/\ op.name = "initialize" /\ ~op.threw
            /\ op'.name \in {"initialize", "find", "getAll"}) => dbFile' = dbFile
      ]_vars

\* a second call in a row on a store that holds an entry
C26_Witness ==
    /\ op.name = "initialize" /\ op.again /\ ~op.threw
    /\ dbFile.state = "ok" /\ Len(dbFile.data) >= 1
    /\ op.before = dbFile

-----------------------------------------------------------------------------
(* Concurrent misses and cache hits of the handlers (checked under Spec)   *)

\* C27: when two concurrent requests both miss at coordinates that are not
\* within 0.01 degree of each other, then in every interleaving in which
\* both writes succeed the store contains both entries once both requests
\* have completed (the read-filter-append-write of a save runs without
\* yielding).
C27_BothKept ==
    [][(/\ \E i \in Slots : reqs[i].pc = "fetching" /\ reqs'[i].pc = "free"
        /\ hist.overlap
        /\ last.handler # "none" /\ last.fetches = 1 /\ last.stored
        /\ last'.fetches = 1 /\ last'.stored
        /\ ~Within(last.saves[1], last'.saves[1].latitude, last'.saves[1].longitude,
                   CoordinateTolerance))
       => LET a == last.saves[1]
              b == last'.saves[1]
              after == Database(dbFile')
          IN  /\ Cardinality({k \in 1..Len(after) : after[k] = a}) = 1
              /\ Cardinality({k \in 1..Len(after) : after[k] = b}) = 1]_vars

\* two overlapping GET requests for points exactly 0.01 degree apart were
\* both answered 200 after a fetch and a save, and the store holds the two
\* entries
C27_Witness ==
    /\ hist.overlap /\ hist.received = 2 /\ InFlight = {}
    /\ hist.served = { <<0, 5>>, <<10, 5>> }
    /\ last.fetches = 1 /\ last.stored
    /\ Len(Database(dbFile)) = 2
    /\ Database(dbFile)[2] = last.saves[1]
    /\ Abs(Database(dbFile)[1].latitude - Database(dbFile)[2].latitude) = 10

\* C28: a POST /api/calculate request with custom parameters, made when the
\* cache holds an entry within tolerance with raw solar and wind data,
\* invokes no fetch and leaves the store exactly as it was; the fetcher and
\* saveEnergyData are triggered only when no entry is found or the found
\* entry lacks rawData.
C28_HitFrame ==
    [][ /\ (/\ hist'.received = hist.received + 1
            /\ last'.handler = "calc" /\ last'.doneAt = clock
            /\ last'.input.latitude.t = "number"
            /\ last'.input.longitude.t = "number"
            /\ \E k \in 1..Len(Database(dbFile)) :
                  /\ Within(Database(dbFile)[k], last'.input.latitude.v,
                            last'.input.longitude.v, CoordinateTolerance)
                  /\ "rawData" \in DOMAIN Database(dbFile)[k])
           => /\ last'.fetches = 0 /\ last'.saves = <<>>
              /\ dbFile' = dbFile
              /\ reqs' = reqs
              /\ last'.status # 400 => last'.hit
        /\ \A i \in Slots :
              (/\ reqs[i].pc = "free" /\ reqs'[i].pc = "fetching"
               /\ reqs'[i].handler = "calc")
                => \A k \in 1..Len(Database(dbFile)) :
                      \/ ~Within(Database(dbFile)[k], reqs'[i].latitude,
                                 reqs'[i].longitude, CoordinateTolerance)
                      \/ "rawData" \notin DOMAIN Database(dbFile)[k]
        /\ (last'.handler = "calc" /\ last'.doneAt = clock /\ last'.saves # <<>>)
              => last'.fetches = 1 /\ ~last'.hit
      ]_vars

\* a request with custom parameters was answered from the entry an earlier
\* request had stored: no fetch, no save, the store holds that entry
C28_Witness ==
    /\ last.handler = "calc" /\ last.status = 200 /\ last.hit
    /\ IsCustom(last.p) /\ "parameters" \in DOMAIN last.body
    /\ last.fetches = 0 /\ last.saves = <<>> /\ last.writes = 0
    /\ Database(dbFile) = <<last.used>>
    /\ last.used.rawData.solar.defined /\ last.used.rawData.wind.defined

=============================================================================
